---- MODULE Spec2Model ----
(***************************************************************************)
(* Model of app_streamlit_ready.py: the donation receipt generator.        *)
(*                                                                         *)
(* Strings are sequences of one-character strings, so that strip, lower,   *)
(* startswith, split, replace and the regular-expression search of the     *)
(* address filter are computed character by character as Python computes   *)
(* them.                                                                   *)
(***************************************************************************)
EXTENDS Integers, Sequences, FiniteSets, TLC

VARIABLES
    uploaded,      \* the uploaded workbook: none, an unreadable one or a table
    search_term,   \* raw text of the filter text_input
    start_idx,     \* value of the "Start index" number_input
    end_idx,       \* value of the "End index" number_input
    view,          \* what the last script run showed to the user
    df,            \* the data frame after the schema check and the filter
    pc,            \* "idle" or "generating" (inside the for loop of main)
    next_row,      \* position in to_generate of the next row to render
    to_generate,   \* df.iloc[start_idx:end_idx + 1] of the running batch
    zip,           \* file list of the ZipFile being written
    download,      \* the download button: whether offered, and its archive
    reported,      \* << N >> of the "Generated N receipts" message, << >> if none
    calls,         \* rows generate_pdf was invoked on in the latest batch
    clock,         \* wall clock, in seconds
    rawName,       \* argument of a direct call of clean_name
    cleaned        \* << >> before the call, << result >> after it

vars == << uploaded, search_term, start_idx, end_idx, view, df, pc, next_row,
           to_generate, zip, download, reported, calls, clock, rawName, cleaned >>

\* a missing cell of a text column, of the Donation column and of the Date column
NaN == << "NaN" >>
NoAmount == << >>
NaT == << >>

NoFile == [kind |-> "none", columns |-> {}, rows |-> << >>]
Unreadable == [kind |-> "unreadable", columns |-> {}, rows |-> << >>]
NoDownload == [offered |-> FALSE, entries |-> << >>]
NotReported == << >>

(***************************************************************************)
(* Bounds of the model.                                                    *)
(***************************************************************************)
MaxRows == 3       \* rows of an uploaded table
MaxClock == 1      \* seconds the clock may advance
MaxTokens == 3     \* tokens a name passed to clean_name is built from

(***************************************************************************)
(* Python string primitives.                                               *)
(***************************************************************************)
UpperChars == << "A", "B", "C", "D", "E", "F", "G", "H", "I", "J", "K", "L", "M",
                 "N", "O", "P", "Q", "R", "S", "T", "U", "V", "W", "X", "Y", "Z" >>
LowerChars == << "a", "b", "c", "d", "e", "f", "g", "h", "i", "j", "k", "l", "m",
                 "n", "o", "p", "q", "r", "s", "t", "u", "v", "w", "x", "y", "z" >>

\* str.lower() on one character
LowerChar(c) ==
    IF \E k \in DOMAIN UpperChars : UpperChars[k] = c
    THEN LowerChars[CHOOSE k \in DOMAIN UpperChars : UpperChars[k] = c]
    ELSE c

\* str.lower()
Lower(s) == [k \in DOMAIN s |-> LowerChar(s[k])]

IsSpace(c) == c \in {" ", "\t", "\n"}

RECURSIVE LStrip(_)
LStrip(s) == IF s # << >> /\ IsSpace(Head(s)) THEN LStrip(Tail(s)) ELSE s

RECURSIVE RStrip(_)
RStrip(s) ==
    IF s # << >> /\ IsSpace(s[Len(s)]) THEN RStrip(SubSeq(s, 1, Len(s) - 1)) ELSE s

\* str.strip()
Strip(s) == RStrip(LStrip(s))

\* str.startswith(p)
StartsWith(s, p) == Len(p) <= Len(s) /\ SubSeq(s, 1, Len(p)) = p

\* s[n:]
DropFirst(s, n) == SubSeq(s, n + 1, Len(s))

\* str.replace(a, b) for one-character a
Replace(s, a, b) == [k \in DOMAIN s |-> IF s[k] = a THEN b ELSE s[k]]

\* str.split('(')[0]
RECURSIVE BeforeParen(_)
BeforeParen(s) ==
    IF s = << >> \/ Head(s) = "(" THEN << >> ELSE << Head(s) >> \o BeforeParen(Tail(s))

(***************************************************************************)
(* clean_name                                                              *)
(***************************************************************************)
prefixes == << << "D", "r", "." >>,
               << "M", "r", "." >>,
               << "M", "r", "s", "." >>,
               << "M", "s", "." >>,
               << "P", "r", "o", "f", "." >>,
               << "M", "i", "s", "s" >>,
               << "S", "i", "r" >>,
               << "M", "a", "d", "a", "m" >> >>

\* a loop that has lost its break: every later prefix is tried on the shortened name
RECURSIVE CleanLoopNoBreak(_, _)
CleanLoopNoBreak(name, k) ==
    IF k > Len(prefixes) THEN name
    ELSE IF StartsWith(Lower(name), Lower(prefixes[k]))
         THEN CleanLoopNoBreak(Strip(DropFirst(name, Len(prefixes[k]))), k + 1)
         ELSE CleanLoopNoBreak(name, k + 1)

\* the for loop of clean_name, from the k-th prefix on
RECURSIVE CleanLoop(_, _)
CleanLoop(name, k) ==
    IF k > Len(prefixes) THEN name
    ELSE IF StartsWith(Lower(name), Lower(prefixes[k]))
         THEN Strip(DropFirst(name, Len(prefixes[k])))
         ELSE CleanLoop(name, k + 1)

clean_name(name) == CleanLoop(Strip(name), 1)

(***************************************************************************)
(* generate_pdf                                                            *)
(*                                                                         *)
(* A row carries the columns generate_pdf reads.  Donation is << v >>, v    *)
(* in hundredths of a rupee (150075 is 1500.75), or NoAmount for a cell     *)
(* that is empty; Date is a triple <<year, month, day>> or NaT; a missing   *)
(* address cell is NaN.                                                     *)
(***************************************************************************)
\* int(x): truncation toward zero, x in hundredths
IntOf(x) == IF x >= 0 THEN x \div 100 ELSE -((-x) \div 100)

\* the sign, integer digits and two decimals that f"{v:,.2f}" displays, v in hundredths
TwoDecimals(v) ==
    [negative |-> v < 0,
     whole |-> (IF v >= 0 THEN v ELSE -v) \div 100,
     decimals |-> (IF v >= 0 THEN v ELSE -v) % 100]

\* strftime("%d-%m-%Y")
Pad2(n) == << n \div 10, n % 10 >>
FormatDate(d) == << Pad2(d[3]), "-", Pad2(d[2]), "-", d[1] >>

\* line 40 raises on a date that is NaT, line 42 on a donation that is NaN
RenderFails(row) == row.Date = NaT \/ row.Donation = NoAmount

donor_name_clean(row) == clean_name(Strip(BeforeParen(Strip(row.Particulars))))

\* lines 35, 38, 39
serial_no(row) ==
    LET voucher_no == Replace(Replace(row.VoucherNo, "/", "-"), "\\", "-")
        donor_name == Replace(Replace(Replace(donor_name_clean(row), " ", "_"),
                                      "/", "-"), "\\", "-")
    IN  voucher_no \o << "_" >> \o donor_name

FileName(row) == serial_no(row) \o << ".", "p", "d", "f" >>

\* line 42
amount(row) == IntOf(row.Donation[1])

\* line 62 formats amount, the integer of line 42
ShownAmount(row) == TwoDecimals(amount(row) * 100)

\* line 43: the cardinal words of the truncated amount and the suffix
amount_words(row) == [cardinal |-> amount(row), suffix |-> " Rupees Only"]

\* The document FPDF.output writes: the page text of lines 52-92 and the
\* information dictionary, whose /CreationDate is datetime.now() at output time.
Document(row, now) ==
    [receipt_no |-> row.VoucherNo,
     date |-> FormatDate(row.Date),
     donor |-> donor_name_clean(row),
     shown_amount |-> ShownAmount(row),
     pan |-> row.PAN,
     address |-> row.Address,
     transaction_id |-> Strip(row.Narration),
     amount_words |-> amount_words(row),
     creation_date |-> now]

\* the pair generate_pdf returns for a row that renders
generate_pdf(row, now) == [name |-> FileName(row), data |-> Document(row, now)]

(***************************************************************************)
(* The uploaded tables the model draws from.                               *)
(***************************************************************************)
required_columns == {"Date", "Particulars", "Consignee/Party Address", "Voucher Type",
                     "Voucher No.", "PAN No.", "Narration", "Gross Total", "Donation"}

Row(particulars, voucher, address, date, donation) ==
    [Particulars |-> particulars, VoucherNo |-> voucher, Address |-> address,
     Date |-> date, Donation |-> donation,
     PAN |-> << "P" >>, Narration |-> << " ", "T", "1" >>]

RowPool ==
    { Row(<< "D", "r", ".", " ", "A", "l", " ", "(", "R", ")" >>, << "J", "/", "1" >>,
          << "A", "b" >>, << 2024, 1, 5 >>, << 150075 >>),
      Row(<< "A", "l" >>, << "J", "\\", "1" >>,
          << "a", ".", "b" >>, << 2024, 2, 9 >>, << 20000 >>),
      Row(<< "s", "i", "r", " ", "B", " ", "c" >>, << "2" >>,
          NaN, << 2023, 12, 31 >>, << 99 >>),
      Row(<< "M", "s", ".", "D" >>, << "3" >>,
          << "b" >>, << 2024, 3, 1 >>, NoAmount),
      Row(<< "E" >>, << "4" >>,
          << "b" >>, NaT, << 500 >>) }

RECURSIVE SeqsUpTo(_, _)
SeqsUpTo(S, n) ==
    IF n = 0 THEN { << >> }
    ELSE LET shorter == SeqsUpTo(S, n - 1)
         IN  shorter \cup { Append(q, x) : q \in shorter, x \in S }

ColumnSets ==
    { required_columns, required_columns \cup {"Remarks"} }
      \cup { required_columns \ {c} : c \in required_columns }

\* Every table of up to MaxRows rows under exactly the required columns, and the
\* tables of at most one row under every other set of columns.
Tables ==
    [kind : {"table"}, columns : {required_columns}, rows : SeqsUpTo(RowPool, MaxRows)]
      \cup [kind : {"table"}, columns : ColumnSets \ {required_columns},
            rows : SeqsUpTo(RowPool, 1)]

FilterTexts ==
    { << >>, << " ", "a", "B" >>, << "." >>, << "(" >>, << "b", "*" >> }

\* the names handed to clean_name when it is called on its own
NameTokens ==
    { << "D", "r", ".", " " >>, << "M", "R", "." >>, << "m", "r", "s", ".", " " >>,
      << "M", "s", "." >>, << "P", "r", "o", "f", "." >>, << "M", "i", "s", "s" >>,
      << "s", "i", "r", " " >>, << "M", "a", "d", "a", "m" >>,
      << " " >>, << "A", "l" >>, << "s", "." >> }

RECURSIVE Flatten(_)
Flatten(q) == IF q = << >> THEN << >> ELSE Head(q) \o Flatten(Tail(q))

NameInputs == { Flatten(q) : q \in SeqsUpTo(NameTokens, MaxTokens) }

(***************************************************************************)
(* The address filter of line 118: Series.str.contains(search_term), whose *)
(* pattern is a regular expression.  Of the regular-expression syntax the  *)
(* model knows what FilterTexts can spell: a literal character, "." for    *)
(* any character, "*" repeating the item before it, and "(" opening a      *)
(* group.                                                                  *)
(***************************************************************************)
\* re.compile succeeds: no group is left open and every "*" has an item to repeat
RegexCompiles(pat) ==
    /\ \A k \in DOMAIN pat : pat[k] # "("
    /\ \A k \in DOMAIN pat : pat[k] = "*" => (k > 1 /\ pat[k - 1] # "*")

AtomMatches(a, c) == a = "." \/ a = c

\* pat[i..] matches a prefix of s[j..]
RECURSIVE MatchHere(_, _, _, _)
MatchHere(pat, i, s, j) ==
    IF i > Len(pat) THEN TRUE
    ELSE IF i < Len(pat) /\ pat[i + 1] = "*"
         THEN \E n \in 0..(Len(s) - j + 1) :
                  /\ \A m \in j..(j + n - 1) : AtomMatches(pat[i], s[m])
                  /\ MatchHere(pat, i + 2, s, j + n)
         ELSE /\ j <= Len(s)
              /\ AtomMatches(pat[i], s[j])
              /\ MatchHere(pat, i + 1, s, j + 1)

\* re.search(pat, s)
RegexSearch(pat, s) == \E j \in 1..(Len(s) + 1) : MatchHere(pat, 1, s, j)

\* str.contains on one lower-cased address cell
Contains(pat, address) == RegexSearch(pat, Lower(address))

\* Line 118 raises: the pattern does not compile, or the mask holds NaN for a
\* missing address and cannot index the frame.
FilterRaises(pat, rows) ==
    \/ ~RegexCompiles(pat)
    \/ \E k \in DOMAIN rows : rows[k].Address = NaN

RECURSIVE Select(_, _)
Select(pat, rows) ==
    IF rows = << >> THEN << >>
    ELSE (IF Contains(pat, Head(rows).Address) THEN << Head(rows) >> ELSE << >>)
           \o Select(pat, Tail(rows))

\* line 116
Term(text) == Lower(Strip(text))

\* a check that forgets the Donation column
SchemaOkLax(columns) == (required_columns \ {"Donation"}) \subseteq columns

\* line 108
SchemaOk(columns) == required_columns \subseteq columns

\* a check that never finds the frame empty
IsEmptyNever(rows) == FALSE

\* line 121
IsEmpty(rows) == rows = << >>

\* Lines 102-130 of one script run: what is shown, and the frame it leaves.
RunScript(up, text) ==
    IF up.kind = "none" THEN [view |-> "noFile", df |-> << >>]
    ELSE IF up.kind = "unreadable" THEN [view |-> "readError", df |-> << >>]
    ELSE IF ~SchemaOk(up.columns) THEN [view |-> "schemaError", df |-> << >>]
    ELSE IF Term(text) # << >> /\ FilterRaises(Term(text), up.rows)
         THEN [view |-> "filterError", df |-> << >>]
    ELSE LET kept == IF Term(text) # << >> THEN Select(Term(text), up.rows) ELSE up.rows
         IN  IF IsEmpty(kept) THEN [view |-> "noData", df |-> kept]
             ELSE [view |-> "selectors", df |-> kept]

\* the filter text_input is on the page
FilterShown == view \in {"filterError", "noData", "selectors", "generated", "renderError"}

\* the number_inputs and the button are on the page
SelectorsShown == view \in {"selectors", "generated", "renderError"}

\* line 128
max_idx == Len(df) - 1

\* frame.iloc[a:b], with Python's treatment of negative and oversized bounds
Clip(x, n) == IF x < 0 THEN (IF x + n < 0 THEN 0 ELSE x + n) ELSE (IF x > n THEN n ELSE x)
\* a slice that takes its upper bound one short: iloc[start_idx:end_idx]
SliceShort(rows, a, b) == SubSeq(rows, Clip(a, Len(rows)) + 1, Clip(b - 1, Len(rows)))

Slice(rows, a, b) == SubSeq(rows, Clip(a, Len(rows)) + 1, Clip(b, Len(rows)))

\* ZipFile.writestr: the entry is appended to the file list, also when an entry
\* of that name is already there
writestr(entries, name, data) == Append(entries, [name |-> name, data |-> data])

(***************************************************************************)
(* main: one action per user interaction.  Streamlit runs the script from  *)
(* the top on every interaction; a batch is stepped row by row so that the *)
(* clock can advance between two renders.                                  *)
(***************************************************************************)
MainInit ==
    /\ uploaded = NoFile
    /\ search_term = << >>
    /\ start_idx = 0
    /\ end_idx = 0
    /\ view = "noFile"
    /\ df = << >>
    /\ pc = "idle"
    /\ next_row = 0
    /\ to_generate = << >>
    /\ zip = << >>
    /\ download = NoDownload
    /\ reported = NotReported
    /\ calls = << >>
    /\ clock = 0

Init ==
    /\ MainInit
    /\ rawName = << >>
    /\ cleaned = << >>

\* a script run in which the button was not clicked: lines 102-130
ShowPage(up, text) ==
    /\ view' = RunScript(up, text).view
    /\ df' = RunScript(up, text).df
    /\ pc' = "idle"
    /\ next_row' = 0
    /\ to_generate' = << >>
    /\ zip' = << >>
    /\ download' = NoDownload
    /\ reported' = NotReported
    /\ calls' = << >>

\* The user puts a workbook into the empty file_uploader (line 100).  No widget
\* below it was on the page: the filter text is empty, the number_inputs start
\* from their defaults.
Upload(file) ==
    /\ pc = "idle"
    /\ uploaded = NoFile
    /\ uploaded' = file
    /\ ShowPage(file, search_term)
    /\ UNCHANGED << search_term, start_idx, end_idx, clock, rawName, cleaned >>

\* The user removes the workbook from the file_uploader: line 102 finds no
\* file, and the widgets below it leave the page with their values.
RemoveFile ==
    /\ pc = "idle"
    /\ uploaded # NoFile
    /\ uploaded' = NoFile
    /\ search_term' = << >>
    /\ start_idx' = 0
    /\ end_idx' = 0
    /\ ShowPage(NoFile, << >>)
    /\ UNCHANGED << clock, rawName, cleaned >>

\* The user edits the filter text (line 116).
SetFilter(text) ==
    /\ pc = "idle"
    /\ FilterShown
    /\ text # search_term
    /\ search_term' = text
    /\ start_idx' = 0
    /\ end_idx' = 0
    /\ ShowPage(uploaded, text)
    /\ UNCHANGED << uploaded, clock, rawName, cleaned >>

\* The user sets "Start index" (line 129), within [0, max_idx]; "End index",
\* whose minimum and default are start_idx, starts again from start_idx.
SetStart(s) ==
    /\ pc = "idle"
    /\ SelectorsShown
    /\ s \in 0..max_idx
    /\ s # start_idx
    /\ start_idx' = s
    /\ end_idx' = s
    /\ ShowPage(uploaded, search_term)
    /\ UNCHANGED << uploaded, search_term, clock, rawName, cleaned >>

\* The user sets "End index" (line 130), within [start_idx, max_idx].
SetEnd(e) ==
    /\ pc = "idle"
    /\ SelectorsShown
    /\ e \in start_idx..max_idx
    /\ e # end_idx
    /\ end_idx' = e
    /\ ShowPage(uploaded, search_term)
    /\ UNCHANGED << uploaded, search_term, start_idx, clock, rawName, cleaned >>

\* lines 142-150: the success message and the download button
Finish(entries, n) ==
    /\ view' = "generated"
    /\ download' = [offered |-> TRUE, entries |-> entries]
    /\ reported' = << n >>
    /\ pc' = "idle"
    /\ next_row' = 0

\* lines 133-137 for the range [a, e]; an empty slice runs the loop zero times
BeginBatch(a, e) ==
    /\ to_generate' = Slice(df, a, e + 1)
    /\ zip' = << >>
    /\ calls' = << >>
    /\ IF to_generate' = << >>
       THEN Finish(<< >>, 0)
       ELSE /\ view' = "generating"
            /\ download' = NoDownload
            /\ reported' = NotReported
            /\ pc' = "generating"
            /\ next_row' = 1
    /\ UNCHANGED << uploaded, search_term, df, clock, rawName, cleaned >>

\* The user clicks "Generate Receipts" (line 132).
ClickGenerate ==
    /\ pc = "idle"
    /\ SelectorsShown
    /\ BeginBatch(start_idx, end_idx)
    /\ UNCHANGED << start_idx, end_idx >>

\* a loop that skips a row that fails to render and goes on with the next
RenderRowSkipping ==
    /\ pc = "generating"
    /\ calls' = Append(calls, next_row)
    /\ zip' = IF RenderFails(to_generate[next_row]) THEN zip
              ELSE writestr(zip, generate_pdf(to_generate[next_row], clock).name,
                            generate_pdf(to_generate[next_row], clock).data)
    /\ IF next_row = Len(to_generate)
       THEN Finish(zip', Len(to_generate))
       ELSE /\ next_row' = next_row + 1
            /\ UNCHANGED << view, download, reported, pc >>
    /\ UNCHANGED << uploaded, search_term, start_idx, end_idx, df, to_generate,
                    clock, rawName, cleaned >>

\* One pass of the loop of lines 138-140.  An exception of generate_pdf leaves
\* the with block and is caught at line 152; after the last row the archive is
\* closed and offered.
RenderRow ==
    /\ pc = "generating"
    /\ calls' = Append(calls, next_row)
    /\ IF RenderFails(to_generate[next_row])
       THEN /\ view' = "renderError"
            /\ zip' = << >>
            /\ download' = NoDownload
            /\ reported' = NotReported
            /\ pc' = "idle"
            /\ next_row' = 0
       ELSE /\ zip' = writestr(zip, generate_pdf(to_generate[next_row], clock).name,
                               generate_pdf(to_generate[next_row], clock).data)
            /\ IF next_row = Len(to_generate)
               THEN Finish(zip', Len(to_generate))
               ELSE /\ next_row' = next_row + 1
                    /\ UNCHANGED << view, download, reported, pc >>
    /\ UNCHANGED << uploaded, search_term, start_idx, end_idx, df, to_generate,
                    clock, rawName, cleaned >>

\* a second of wall-clock time passes
Tick ==
    /\ clock < MaxClock
    /\ clock' = clock + 1
    /\ UNCHANGED << uploaded, search_term, start_idx, end_idx, view, df, pc, next_row,
                    to_generate, zip, download, reported, calls, rawName, cleaned >>

Next ==
    \/ \E file \in Tables \cup {Unreadable} : Upload(file)
    \/ RemoveFile
    \/ \E text \in FilterTexts : SetFilter(text)
    \/ \E s \in 0..MaxRows : SetStart(s)
    \/ \E e \in 0..MaxRows : SetEnd(e)
    \/ ClickGenerate
    \/ RenderRow
    \/ Tick

Spec == Init /\ [][Next]_vars

(***************************************************************************)
(* The batch step driven by a caller that passes any range: lines 132-150  *)
(* with start_idx and end_idx not bounded by the number_inputs.            *)
(***************************************************************************)
ProcessDirect(a, e) ==
    /\ pc = "idle"
    /\ SelectorsShown
    /\ start_idx' = a
    /\ end_idx' = e
    /\ BeginBatch(a, e)

NextProcess ==
    \/ \E file \in Tables \cup {Unreadable} : Upload(file)
    \/ RemoveFile
    \/ \E text \in FilterTexts : SetFilter(text)
    \/ \E a \in (-1)..MaxRows, e \in (-1)..MaxRows : ProcessDirect(a, e)
    \/ RenderRow
    \/ Tick

SpecProcess == Init /\ [][NextProcess]_vars

(***************************************************************************)
(* clean_name called on its own.                                           *)
(***************************************************************************)
InitClean ==
    /\ MainInit
    /\ rawName \in NameInputs
    /\ cleaned = << >>

CallClean ==
    /\ cleaned = << >>
    /\ cleaned' = << clean_name(rawName) >>
    /\ UNCHANGED << uploaded, search_term, start_idx, end_idx, view, df, pc, next_row,
                    to_generate, zip, download, reported, calls, clock, rawName >>

NextClean == CallClean

SpecClean == InitClean /\ [][NextClean]_vars

(***************************************************************************)
(* Properties.                                                             *)
(***************************************************************************)
SelectedRows == SubSeq(df, start_idx + 1, end_idx + 1)

DistinctNames(rows) ==
    \A i, j \in DOMAIN rows : i # j => FileName(rows[i]) # FileName(rows[j])

\* C1: a finished batch over the inclusive range [start_idx, end_idx] whose
\* rows have pairwise distinct serial filenames leaves an archive with one
\* entry per selected row, in table order, named serial_no + ".pdf", and the
\* count reported to the user is the number of selected rows.
C1_ArchiveOfDistinctRows ==
    (view = "generated" /\ DistinctNames(SelectedRows)) =>
        /\ download.offered
        /\ Len(download.entries) = end_idx - start_idx + 1
        /\ \A k \in 1..(end_idx - start_idx + 1) :
               download.entries[k].name
                   = serial_no(df[start_idx + k]) \o << ".", "p", "d", "f" >>
        /\ reported = << end_idx - start_idx + 1 >>

C1_Witness ==
    /\ view = "generated"
    /\ DistinctNames(SelectedRows)
    /\ end_idx - start_idx + 1 >= 2
    /\ Len(download.entries) >= 2

\* C2: filenames are unique within the archive: of two selected rows with the
\* same serial filename the archive keeps one entry, holding the later row's
\* document.
C2_UniqueFilenames ==
    /\ \A i, j \in DOMAIN zip : i # j => zip[i].name # zip[j].name
    /\ download.offered =>
           \A k \in DOMAIN to_generate :
               Cardinality({ i \in DOMAIN download.entries :
                               download.entries[i].name = FileName(to_generate[k]) }) = 1

\* C3: a table that lacks one of the nine required columns is rejected with
\* the schema error before the filter, the range selectors and any render: no
\* frame is kept, generate_pdf is never invoked and no archive is offered.
C3_SchemaRejected ==
    (uploaded.kind = "table" /\ ~(required_columns \subseteq uploaded.columns)) =>
        /\ view = "schemaError"
        /\ df = << >>
        /\ to_generate = << >>
        /\ calls = << >>
        /\ zip = << >>
        /\ pc = "idle"
        /\ ~download.offered

C3_Witness ==
    /\ uploaded.kind = "table"
    /\ "Donation" \notin uploaded.columns
    /\ uploaded.rows # << >>
    /\ view = "schemaError"

\* C4: when rendering fails for row k of the selected range the batch aborts:
\* the rows before k rendered, no row after k is rendered, no archive and no
\* count is shown, and the user sees an error message; a batch that is offered
\* for download or still running has met no failing row.
C4_RenderFailureAborts ==
    /\ view = "renderError" =>
           /\ calls # << >>
           /\ calls = [k \in 1..Len(calls) |-> k]
           /\ RenderFails(to_generate[Len(calls)])
           /\ \A k \in 1..(Len(calls) - 1) : ~RenderFails(to_generate[k])
           /\ ~download.offered
           /\ reported = << >>
           /\ pc = "idle"
    /\ \A k \in 1..Len(calls) : \A j \in 1..(k - 1) : ~RenderFails(to_generate[j])
    /\ download.offered => \A k \in DOMAIN to_generate : ~RenderFails(to_generate[k])

C4_Witness ==
    /\ view = "renderError"
    /\ Len(calls) >= 2
    /\ Len(to_generate) > Len(calls)

InvalidRange ==
    \/ start_idx > end_idx
    \/ start_idx < 0 \/ start_idx > max_idx
    \/ end_idx < 0 \/ end_idx > max_idx

C6_EmptyFilterStops ==
    /\ (uploaded.kind = "table" /\ df = << >>
          /\ view \notin {"schemaError", "filterError"}) => view = "noData"
    /\ view = "noData" =>
           /\ pc = "idle"
           /\ to_generate = << >>
           /\ calls = << >>
           /\ ~download.offered
    /\ download.offered => Len(df) >= 1
    /\ pc = "generating" => Len(df) >= 1

C6_Witness ==
    /\ view = "noData"
    /\ Term(search_term) # << >>
    /\ uploaded.rows # << >>

\* s from its first to its last character that is not whitespace
Trimmed(s) ==
    LET inked == { k \in DOMAIN s : ~IsSpace(s[k]) }
    IN  IF inked = {} THEN << >>
        ELSE SubSeq(s, CHOOSE k \in inked : \A m \in inked : k <= m,
                       CHOOSE k \in inked : \A m \in inked : k >= m)

BeginsWith(t, p) ==
    /\ Len(p) <= Len(t)
    /\ \A k \in 1..Len(p) : LowerChar(t[k]) = LowerChar(p[k])

Matching(t) == { k \in DOMAIN prefixes : BeginsWith(t, prefixes[k]) }

FirstMatching(t) == CHOOSE k \in Matching(t) : \A m \in Matching(t) : k <= m

TrimmedRawName == Trimmed(rawName)

\* C7: clean_name trims its argument; when the trimmed name begins, in any
\* letter case, with one of the eight prefixes, the result is the trimmed name
\* without the first such prefix of the list, trimmed again, and nothing more
\* is removed; with no such prefix the result is the trimmed name.
C7_CleanName ==
    cleaned # << >> =>
        IF Matching(TrimmedRawName) = {}
        THEN cleaned[1] = TrimmedRawName
        ELSE cleaned[1]
               = Trimmed(SubSeq(TrimmedRawName,
                                Len(prefixes[FirstMatching(TrimmedRawName)]) + 1,
                                Len(TrimmedRawName)))

C7_Witness ==
    /\ cleaned # << >>
    /\ Matching(TrimmedRawName) # {}
    /\ Matching(cleaned[1]) # {}

\* C8: two renders of the same row give the same filename and the same
\* document, whenever they happen.
C8_RenderIsPure ==
    \A i, j \in DOMAIN zip : to_generate[i] = to_generate[j] => zip[i] = zip[j]

\* pat occurs in s as it is written
LiteralSearch(pat, s) ==
    \E j \in 1..(Len(s) - Len(pat) + 1) : SubSeq(s, j, j + Len(pat) - 1) = pat

LiteralKeeps(pat, row) == row.Address # NaN /\ LiteralSearch(pat, Lower(row.Address))

RECURSIVE LiteralSelect(_, _)
LiteralSelect(pat, rows) ==
    IF rows = << >> THEN << >>
    ELSE (IF LiteralKeeps(pat, Head(rows)) THEN << Head(rows) >> ELSE << >>)
           \o LiteralSelect(pat, Tail(rows))

\* C9: with a filter text that is not empty after trimming, the filtered frame
\* the page shows, and every batch is rendered from, is the rows whose address
\* contains the text as a literal, case-insensitive substring, in their order,
\* whatever the text and the addresses are.
C9_LiteralFilter ==
    (uploaded.kind = "table" /\ required_columns \subseteq uploaded.columns
       /\ Term(search_term) # << >>
       /\ view \in {"noData", "selectors", "generating", "generated", "renderError"}) =>
        df = LiteralSelect(Term(search_term), uploaded.rows)

\* C10: the salutation shows the two-decimal display of the donation as it is
\* in the row, fraction included; the amount in words is of the donation
\* truncated toward zero.
C10_SalutationShowsOriginal ==
    \A k \in DOMAIN zip :
        /\ zip[k].data.shown_amount = TwoDecimals(to_generate[k].Donation[1])
        /\ zip[k].data.amount_words.cardinal = IntOf(to_generate[k].Donation[1])

====
